---- MODULE Spec2Model ----
(***************************************************************************)
(* A model of pynvjitlink/patch.py: the PatchedLinker link session that    *)
(* drives a native NvJitLinker handle, and the LTOCUDACodeLibrary          *)
(* per-architecture LTO-IR cache.                                          *)
(*                                                                         *)
(* Python values are records tagged with their type.  A Python str that    *)
(* the code takes apart (a path, a display name) is a sequence of          *)
(* one-character strings; bytes are sequences of integers.                 *)
(***************************************************************************)
EXTENDS Integers, Sequences, FiniteSets, TLC

VARIABLES
    self,            \* the PatchedLinker object: NoSession, or options and _linker
    handles,         \* number of NvJitLinker constructions so far
    activeCC,        \* compute capability of the active context's device
    DUMP_ASSEMBLY,   \* numba.core.config.DUMP_ASSEMBLY
    last,            \* the last call on the session: arguments, native calls, outcome
    _ltoir_cache,    \* LTOCUDACodeLibrary._ltoir_cache
    _nvvm_options,   \* CUDACodeLibrary._nvvm_options
    llvm_to_ptx_calls, \* per architecture, the number of nvvm.llvm_to_ptx calls
    returned,        \* per architecture, the payloads get_ltoir has returned
    lastIR,          \* the last get_ltoir call: argument, options given to nvvm, result
    numba,           \* the host framework as the import on line 17 finds it
    Linker_new,      \* the slot numba.cuda.cudadrv.driver.Linker.new
    _internal_codegen, \* the slot cuda_target.target_context._internal_codegen
    codegens,        \* number of JITLTOCUDACodegen objects constructed so far
    lastInstall,     \* the last installation call and its outcome
    thr              \* per thread, its position in a concurrent get_ltoir call

vars == <<self, handles, activeCC, DUMP_ASSEMBLY, last,
          _ltoir_cache, _nvvm_options, llvm_to_ptx_calls, returned, lastIR,
          numba, Linker_new, _internal_codegen, codegens, lastInstall, thr>>

linkVars == <<self, handles, activeCC, DUMP_ASSEMBLY, last>>
cacheVars == <<_ltoir_cache, _nvvm_options, llvm_to_ptx_calls, returned, lastIR>>
installVars == <<numba, Linker_new, _internal_codegen, codegens, lastInstall>>

-----------------------------------------------------------------------------
(* Bounds *)

\* inputs the native handle of one session accepts
MaxCalls == 2
\* NvJitLinker handles the process creates
MaxHandles == 2
\* JITLTOCUDACodegen objects the process creates
MaxCodegens == 3
\* nvvm.llvm_to_ptx calls per architecture
MaxCompiles == 2

-----------------------------------------------------------------------------
(* Python values *)

PyNone == [type |-> "NoneType"]
PyInt(n) == [type |-> "int", val |-> n]
PyTuple(s) == [type |-> "tuple", items |-> s]
PyList(s) == [type |-> "list", items |-> s]
PyBytes(b) == [type |-> "bytes", val |-> b]

IsNone(v) == v.type = "NoneType"

\* truth value of max_registers (None, or an int)
Truthy(v) == IF v.type = "int" THEN v.val # 0 ELSE FALSE

\* str(chars): the TLA+ string of a sequence of one-character strings
RECURSIVE Str(_)
Str(cs) == IF cs = <<>> THEN "" ELSE Head(cs) \o Str(Tail(cs))

\* what a call left behind when it raised nothing
NoExc == "none"

-----------------------------------------------------------------------------
(* Inputs the callers may pass *)

CCInputs ==
    { PyNone, PyInt(75), PyList(<<7, 5>>),
      PyTuple(<<>>), PyTuple(<<7>>), PyTuple(<<7, 5>>), PyTuple(<<8, 0>>),
      PyTuple(<<7, 5, 0>>) }

MaxRegistersInputs == { PyNone, PyInt(0), PyInt(32) }

AdditionalFlagsInputs == { PyNone, PyList(<<>>), PyList(<<"-g", "-O3">>) }

\* the architectures sessions are opened for
SessionCCs == { PyTuple(<<7, 5>>), PyTuple(<<8, 0>>) }

\* compute capabilities a device reports
DeviceCCs == { <<7, 5>>, <<8, 0>> }

-----------------------------------------------------------------------------
(* PatchedLinker.__init__ *)

NoSession == [type |-> "NoneType"]

\* the record of a call that has not happened
NoCall ==
    [op |-> "none", via |-> "none", cc |-> PyNone, max_registers |-> PyNone,
     lineinfo |-> FALSE, lto |-> FALSE, additional_flags |-> PyNone,
     path |-> <<>>, kind |-> -1,
     name |-> <<>>, completeBefore |-> FALSE, native |-> <<>>, compile |-> <<>>,
     printed |-> <<>>, exc |-> NoExc, msg |-> "", cause |-> NoExc,
     ret |-> PyNone]

\* the option list with max_registers tested against None, not for truth
LinkOptions_none_test(max_registers, lineinfo, cc, lto, additional_flags) ==
    LET sm_ver == ToString(cc.items[1] * 10 + cc.items[2])
        arch == "-arch=sm_" \o sm_ver
    IN  <<arch>>
        \o (IF ~IsNone(max_registers)
            THEN << "-maxrregcount=" \o ToString(max_registers.val) >>
            ELSE <<>>)
        \o (IF lineinfo THEN << "-lineinfo" >> ELSE <<>>)
        \o (IF lto THEN << "-lto" >> ELSE <<>>)
        \o (IF ~IsNone(additional_flags) THEN additional_flags.items ELSE <<>>)

\* lines 68-78: the option list of a cc with at least two items
LinkOptions(max_registers, lineinfo, cc, lto, additional_flags) ==
    LET sm_ver == ToString(cc.items[1] * 10 + cc.items[2])
        arch == "-arch=sm_" \o sm_ver
    IN  <<arch>>
        \o (IF Truthy(max_registers)
            THEN << "-maxrregcount=" \o ToString(max_registers.val) >>
            ELSE <<>>)
        \o (IF lineinfo THEN << "-lineinfo" >> ELSE <<>>)
        \o (IF lto THEN << "-lto" >> ELSE <<>>)
        \o (IF ~IsNone(additional_flags) THEN additional_flags.items ELSE <<>>)

\* the exception __init__ raises before it reaches NvJitLinker, or NoExc
InitCheck(cc) ==
    IF IsNone(cc) THEN "RuntimeError"
    ELSE IF cc.type \notin {"list", "tuple"} THEN "TypeError"
    ELSE IF Len(cc.items) < 2 THEN "IndexError"
    ELSE NoExc

\* the messages of lines 64 and 66 (the source writes cc in backquotes)
InitMsg(exc) ==
    IF exc = "RuntimeError" THEN "PatchedLinker requires CC to be specified"
    ELSE IF exc = "TypeError" THEN "cc must be a list or tuple of length 2"
    ELSE IF exc = "IndexError" THEN "tuple index out of range"
    ELSE ""

\* __init__ that opens the native handle before it validates cc
PatchedLinker_init_handle_first(via, max_registers, lineinfo, cc, lto, additional_flags, nativeOk) ==
    LET exc == InitCheck(cc)
        call == [NoCall EXCEPT !.op = "__init__", !.via = via, !.cc = cc,
                               !.max_registers = max_registers,
                               !.lineinfo = lineinfo, !.lto = lto,
                               !.additional_flags = additional_flags]
    IN
    /\ self = NoSession
    /\ handles < MaxHandles
    /\ handles' = handles + 1
    /\ IF exc # NoExc
       THEN /\ last' = [call EXCEPT !.exc = exc, !.msg = InitMsg(exc)]
            /\ UNCHANGED self
       ELSE LET options == LinkOptions(max_registers, lineinfo, cc, lto,
                                       additional_flags)
            IN  IF nativeOk
                THEN /\ self' = [type |-> "PatchedLinker",
                                 options |-> options,
                                 _linker |-> [options |-> options,
                                              _complete |-> FALSE,
                                              ninputs |-> 0]]
                     /\ last' = call
                ELSE /\ self' = self
                     /\ last' = [call EXCEPT !.exc = "NvJitLinkError",
                                             !.msg = "nvJitLinkCreate failed"]
    /\ UNCHANGED <<activeCC, DUMP_ASSEMBLY>>
    /\ UNCHANGED <<cacheVars, installVars, thr>>

\* PatchedLinker(...): nativeOk is whether the NvJitLinker constructor succeeds
PatchedLinker_init(via, max_registers, lineinfo, cc, lto, additional_flags, nativeOk) ==
    LET exc == InitCheck(cc)
        call == [NoCall EXCEPT !.op = "__init__", !.via = via, !.cc = cc,
                               !.max_registers = max_registers,
                               !.lineinfo = lineinfo, !.lto = lto,
                               !.additional_flags = additional_flags]
    IN
    /\ self = NoSession
    /\ handles < MaxHandles
    /\ IF exc # NoExc
       THEN /\ last' = [call EXCEPT !.exc = exc, !.msg = InitMsg(exc)]
            /\ UNCHANGED <<self, handles>>
       ELSE LET options == LinkOptions(max_registers, lineinfo, cc, lto,
                                       additional_flags)
            IN  /\ handles' = handles + 1
                /\ IF nativeOk
                   THEN /\ self' = [type |-> "PatchedLinker",
                                    options |-> options,
                                    _linker |-> [options |-> options,
                                                 _complete |-> FALSE,
                                                 ninputs |-> 0]]
                        /\ last' = call
                   ELSE /\ self' = self
                        /\ last' = [call EXCEPT !.exc = "NvJitLinkError",
                                                !.msg = "nvJitLinkCreate failed"]
    /\ UNCHANGED <<activeCC, DUMP_ASSEMBLY>>
    /\ UNCHANGED <<cacheVars, installVars, thr>>

\* new_patched_linker(...): the factory installed as Linker.new
new_patched_linker(max_registers, lineinfo, cc, lto, additional_flags, nativeOk) ==
    PatchedLinker_init("new_patched_linker", max_registers, lineinfo, cc, lto,
                       additional_flags, nativeOk)

-----------------------------------------------------------------------------
(* The native link service behind self._linker (pynvjitlink.api.NvJitLinker) *)

\* an ingestion entry point: the call may be accepted or rejected
NvJitLinker_add(linker, fn, data, name, ok) ==
    IF ok
    THEN [linker EXCEPT !.ninputs = @ + 1]
    ELSE linker

\* the final-link entry point: the binary of the inputs the handle accepted
NvJitLinker_get_linked_cubin(linker) == <<127, linker.ninputs>>

\* one native call as the session made it
NativeCall(fn, data, name, ok) ==
    [fn |-> fn, data |-> data, name |-> name, ok |-> ok]

-----------------------------------------------------------------------------
(* The environment: files, the source compiler, the host framework *)

\* numba.cuda.cudadrv.driver.FILE_EXTENSION_MAP (the CU_JIT_INPUT_* values)
FILE_EXTENSION_MAP ==
    [ext \in {"o", "ptx", "a", "lib", "cubin", "fatbin"} |->
        CASE ext = "cubin" -> 0
          [] ext = "ptx" -> 1
          [] ext = "fatbin" -> 2
          [] ext = "o" -> 3
          [] ext = "a" -> 4
          [] ext = "lib" -> 4]

\* kinds a caller may pass to add_file; 5 (CU_JIT_INPUT_NVVM) has no route
KindInputs == 0 .. 5

PathObj == <<"/", "d", "/", "k", ".", "o">>
PathPtx == <<"k", ".", "p", "t", "x">>
PathGone == <<"/", "d", "/", "g", ".", "o">>
PathDir == <<"/", "d">>

PathInputs == { PathObj, PathPtx, PathGone, PathDir }

\* what open(path, "rb") finds
FileSystem ==
    [p \in PathInputs |->
        CASE p = PathObj -> [kind |-> "file", data |-> <<127, 69>>]
          [] p = PathPtx -> [kind |-> "file", data |-> <<47, 47>>]
          [] p = PathGone -> [kind |-> "missing", data |-> <<>>]
          [] p = PathDir -> [kind |-> "dir", data |-> <<>>]]

BytesInputs == { <<1>>, <<2, 3>> }

NameDefault == <<"<", "d", "e", "f", ">">>
NameInputs == { NameDefault, <<"m">> }

CuInputs == { "__global__ void k(){}" }
CuNameInputs ==
    { <<"k", ".", "c", "u">>, <<"k">>, <<"d", ".", "v", "/", "k">>,
      <<".", "c">>, <<"a", ".", "b", ".", "c">> }

\* assembly texts nvrtc.compile may return
PtxTexts == { <<"p">>, <<"p", "x">> }

\* code points of the characters of the assembly texts
Ord == [c \in {"p", "x"} |-> IF c = "p" THEN 112 ELSE 120]

\* str.encode()
Encode(text) == [i \in DOMAIN text |-> Ord[text[i]]]

\* the last index of character c in s, or 0
RECURSIVE RFind(_, _)
RFind(s, c) ==
    IF s = <<>> THEN 0
    ELSE IF s[Len(s)] = c THEN Len(s)
    ELSE RFind(SubSeq(s, 1, Len(s) - 1), c)

\* pathlib.Path(path).name for a path that does not end in a separator
PathName(path) == SubSeq(path, RFind(path, "/") + 1, Len(path))

\* the first index of character c in s, or 0
RECURSIVE Find(_, _)
Find(s, c) ==
    IF s = <<>> THEN 0
    ELSE IF s[1] = c THEN 1
    ELSE LET i == Find(Tail(s), c) IN IF i = 0 THEN 0 ELSE i + 1

\* the root cut at the first dot of the name, as name.split(".")[0] gives it
SplitextRoot_first_dot(p) ==
    IF Find(p, ".") > 0 THEN SubSeq(p, 1, Find(p, ".") - 1) ELSE p

\* os.path.splitext(p)[0]
SplitextRoot(p) ==
    LET sepIndex == RFind(p, "/")
        dotIndex == RFind(p, ".")
    IN  IF /\ dotIndex > sepIndex
           /\ \E i \in (sepIndex + 1) .. (dotIndex - 1) : p[i] # "."
        THEN SubSeq(p, 1, dotIndex - 1)
        ELSE p

-----------------------------------------------------------------------------
(* PatchedLinker: the operations of a session *)

\* what an operation leaves: the handle, its native calls, what it raised
Outcome(linker, native, exc, msg, cause, ret) ==
    [linker |-> linker, native |-> native, exc |-> exc, msg |-> msg,
     cause |-> cause, ret |-> ret]

NativeMsg == "nvJitLink error log"

\* lines 91-101: self._linker.<fn>(data, name), nothing caught
Forward(linker, fn, data, name, ok) ==
    Outcome(NvJitLinker_add(linker, fn, data, name, ok),
            <<NativeCall(fn, data, name, ok)>>,
            IF ok THEN NoExc ELSE "NvJitLinkError",
            IF ok THEN "" ELSE NativeMsg,
            NoExc, PyNone)

add_ptx_outcome(linker, ptx, name, ok) == Forward(linker, "add_ptx", ptx, name, ok)
add_fatbin_outcome(linker, fatbin, name, ok) ==
    Forward(linker, "add_fatbin", fatbin, name, ok)
add_ltoir_outcome(linker, ltoir, name, ok) ==
    Forward(linker, "add_ltoir", ltoir, name, ok)
add_object_outcome(linker, obj, name, ok) ==
    Forward(linker, "add_object", obj, name, ok)

\* FileRoute that hands archives to the object entry point
FileRoute_archive_as_object(kind) ==
    IF kind = FILE_EXTENSION_MAP["cubin"] THEN "add_cubin"
    ELSE IF kind = FILE_EXTENSION_MAP["fatbin"] THEN "add_fatbin"
    ELSE IF kind = FILE_EXTENSION_MAP["ptx"] THEN "self.add_ptx"
    ELSE IF kind \in {FILE_EXTENSION_MAP["o"], FILE_EXTENSION_MAP["a"]} THEN "add_object"
    ELSE "LinkerError"

\* FileRoute with the final else branch falling through to add_object
FileRoute_else_object(kind) ==
    IF kind = FILE_EXTENSION_MAP["cubin"] THEN "add_cubin"
    ELSE IF kind = FILE_EXTENSION_MAP["fatbin"] THEN "add_fatbin"
    ELSE IF kind = FILE_EXTENSION_MAP["a"] THEN "add_library"
    ELSE IF kind = FILE_EXTENSION_MAP["ptx"] THEN "self.add_ptx"
    ELSE "add_object"

\* lines 111-122: the entry point add_file picks for a kind
FileRoute(kind) ==
    IF kind = FILE_EXTENSION_MAP["cubin"] THEN "add_cubin"
    ELSE IF kind = FILE_EXTENSION_MAP["fatbin"] THEN "add_fatbin"
    ELSE IF kind = FILE_EXTENSION_MAP["a"] THEN "add_library"
    ELSE IF kind = FILE_EXTENSION_MAP["ptx"] THEN "self.add_ptx"
    ELSE IF kind = FILE_EXTENSION_MAP["o"] THEN "add_object"
    ELSE "LinkerError"

\* add_file that dispatches on the kind before it opens the file
add_file_outcome_kind_first(linker, path, kind, ok) ==
    LET f == FileSystem[path]
        name == PathName(path)
        fn == FileRoute(kind)
    IN  IF fn = "LinkerError"
        THEN Outcome(linker, <<>>, "LinkerError",
                     "Don't know how to link " \o ToString(kind), NoExc, PyNone)
        ELSE IF f.kind = "dir"
        THEN Outcome(linker, <<>>, "IsADirectoryError", "Is a directory",
                     NoExc, PyNone)
        ELSE IF fn = "self.add_ptx"
        THEN add_ptx_outcome(linker, f.data, name, ok)
        ELSE Outcome(NvJitLinker_add(linker, fn, f.data, name, ok),
                     <<NativeCall(fn, f.data, name, ok)>>,
                     IF ok THEN NoExc ELSE "LinkerError",
                     "",
                     IF ok THEN NoExc ELSE "NvJitLinkError",
                     PyNone)

\* lines 103-127
add_file_outcome(linker, path, kind, ok) ==
    LET f == FileSystem[path]
        name == PathName(path)
        fn == FileRoute(kind)
    IN  IF f.kind = "missing"
        THEN Outcome(linker, <<>>, "LinkerError", Str(path) \o " not found",
                     NoExc, PyNone)
        ELSE IF f.kind = "dir"
        THEN Outcome(linker, <<>>, "IsADirectoryError", "Is a directory",
                     NoExc, PyNone)
        ELSE IF fn = "self.add_ptx"
        THEN add_ptx_outcome(linker, f.data, name, ok)
        ELSE IF fn = "LinkerError"
        THEN Outcome(linker, <<>>, "LinkerError",
                     "Don't know how to link " \o ToString(kind), NoExc, PyNone)
        ELSE Outcome(NvJitLinker_add(linker, fn, f.data, name, ok),
                     <<NativeCall(fn, f.data, name, ok)>>,
                     IF ok THEN NoExc ELSE "LinkerError",
                     "",
                     IF ok THEN NoExc ELSE "NvJitLinkError",
                     PyNone)

\* lines 136-139: what add_cu prints
Dump(dump, name, ptx) ==
    IF dump
    THEN << <<"center", "ASSEMBLY " \o Str(name), 80, "-">>,
            <<"text", Str(ptx), 0, "">>,
            <<"repeat", "=", 80, "">> >>
    ELSE <<>>

\* complete that sets the marker before it asks for the binary
complete_outcome_mark_first(linker, ok) ==
    IF ok
    THEN Outcome([linker EXCEPT !._complete = TRUE],
                 <<NativeCall("get_linked_cubin", <<>>, <<>>, ok)>>,
                 NoExc, "", NoExc,
                 PyBytes(NvJitLinker_get_linked_cubin(linker)))
    ELSE Outcome([linker EXCEPT !._complete = TRUE],
                 <<NativeCall("get_linked_cubin", <<>>, <<>>, ok)>>,
                 "LinkerError", "", "NvJitLinkError", PyNone)

\* lines 145-151
complete_outcome(linker, ok) ==
    IF ok
    THEN Outcome([linker EXCEPT !._complete = TRUE],
                 <<NativeCall("get_linked_cubin", <<>>, <<>>, ok)>>,
                 NoExc, "", NoExc,
                 PyBytes(NvJitLinker_get_linked_cubin(linker)))
    ELSE Outcome(linker,
                 <<NativeCall("get_linked_cubin", <<>>, <<>>, ok)>>,
                 "LinkerError", "", "NvJitLinkError", PyNone)

\* the session and the call record after an operation
Apply(call, out) ==
    /\ self' = [self EXCEPT !._linker = out.linker]
    /\ last' = [call EXCEPT !.completeBefore = self._linker._complete,
                            !.native = out.native, !.exc = out.exc,
                            !.msg = out.msg, !.cause = out.cause,
                            !.ret = out.ret]
    /\ UNCHANGED <<handles, activeCC, DUMP_ASSEMBLY>>
    /\ UNCHANGED <<cacheVars, installVars, thr>>

Open == self # NoSession /\ self._linker.ninputs < MaxCalls

add_ptx(ptx, name, ok) ==
    /\ Open
    /\ Apply([NoCall EXCEPT !.op = "add_ptx", !.name = name],
             add_ptx_outcome(self._linker, ptx, name, ok))

add_fatbin(fatbin, name, ok) ==
    /\ Open
    /\ Apply([NoCall EXCEPT !.op = "add_fatbin", !.name = name],
             add_fatbin_outcome(self._linker, fatbin, name, ok))

add_ltoir(ltoir, name, ok) ==
    /\ Open
    /\ Apply([NoCall EXCEPT !.op = "add_ltoir", !.name = name],
             add_ltoir_outcome(self._linker, ltoir, name, ok))

add_object(obj, name, ok) ==
    /\ Open
    /\ Apply([NoCall EXCEPT !.op = "add_object", !.name = name],
             add_object_outcome(self._linker, obj, name, ok))

add_file(path, kind, ok) ==
    /\ Open
    /\ Apply([NoCall EXCEPT !.op = "add_file", !.path = path, !.kind = kind],
             add_file_outcome(self._linker, path, kind, ok))

\* one nvrtc.compile call: its arguments and the assembly it returned
Compile(cu, name, cc, compiled, ptx) ==
    [cu |-> cu, name |-> name, cc |-> cc, ok |-> compiled,
     ptx |-> IF compiled THEN ptx ELSE <<>>]

\* add_cu that returns from the dump branch without submitting the assembly
add_cu_outcome_dump_returns(linker, deviceCC, dump, cu, name, compiled, ptx, ok) ==
    LET cc == deviceCC
        ptx_name == SplitextRoot(name) \o <<".", "p", "t", "x">>
        out == IF compiled
               THEN IF dump THEN Outcome(linker, <<>>, NoExc, "", NoExc, PyNone)
                    ELSE add_ptx_outcome(linker, Encode(ptx), ptx_name, ok)
               ELSE Outcome(linker, <<>>, "NvrtcError", "NVRTC Compilation failure",
                            NoExc, PyNone)
    IN  [out |-> out,
         compile |-> <<Compile(cu, name, cc, compiled, ptx)>>,
         printed |-> IF compiled THEN Dump(dump, name, ptx) ELSE <<>>]

\* lines 129-143: deviceCC is dev.compute_capability, dump is config.DUMP_ASSEMBLY,
\* compiled is whether nvrtc.compile succeeds, ptx its assembly
add_cu_outcome(linker, deviceCC, dump, cu, name, compiled, ptx, ok) ==
    LET cc == deviceCC
        ptx_name == SplitextRoot(name) \o <<".", "p", "t", "x">>
        out == IF compiled
               THEN add_ptx_outcome(linker, Encode(ptx), ptx_name, ok)
               ELSE Outcome(linker, <<>>, "NvrtcError", "NVRTC Compilation failure",
                            NoExc, PyNone)
    IN  [out |-> out,
         compile |-> <<Compile(cu, name, cc, compiled, ptx)>>,
         printed |-> IF compiled THEN Dump(dump, name, ptx) ELSE <<>>]

add_cu(cu, name, compiled, ptx, ok) ==
    LET r == add_cu_outcome(self._linker, activeCC, DUMP_ASSEMBLY, cu, name,
                            compiled, ptx, ok)
    IN
    /\ Open
    /\ Apply([NoCall EXCEPT !.op = "add_cu", !.name = name,
                            !.compile = r.compile, !.printed = r.printed],
             r.out)

complete(ok) ==
    /\ self # NoSession
    /\ Apply([NoCall EXCEPT !.op = "complete"], complete_outcome(self._linker, ok))

-----------------------------------------------------------------------------
(* LTOCUDACodeLibrary: the LTO-IR cache of one code unit *)

PyStr(t) == [type |-> "str", str |-> t]

\* option sets a code unit may be built with (CUDACodeLibrary._nvvm_options)
NvvmOptionInputs ==
    { [k \in {} |-> PyNone],
      [k \in {"opt"} |-> PyInt(3)],
      [k \in {"opt", "arch"} |-> IF k = "opt" THEN PyInt(0) ELSE PyStr("compute_50")] }

\* the cc arguments of get_ltoir
IRCCInputs == { PyNone, PyTuple(<<7, 5>>), PyTuple(<<8, 0>>), PyList(<<7, 5>>) }

\* payloads nvvm.llvm_to_ptx may return
IRPayloads == { <<>>, <<66, 67>>, <<66, 68>> }

\* self.llvm_strs
LlvmStrs == <<"define void @k()">>

NoIRCall ==
    [op |-> "none", cc |-> PyNone, key |-> <<>>, nvvm |-> <<>>, exc |-> NoExc,
     ret |-> PyNone]

\* nvvm.get_arch_option(major, minor)
get_arch_option(major, minor) == "compute_" \o ToString(major) \o ToString(minor)

\* line 176: self._ltoir_cache.get(cc, None)
CacheGet(cache, cc) == IF cc \in DOMAIN cache THEN PyBytes(cache[cc]) ELSE PyNone

\* line 177: the truth value of the cached object
CacheHit(ltoir) == IF ltoir.type = "bytes" THEN ltoir.val # <<>> ELSE FALSE

\* lines 181-183: the unit's option set and the option set of the nvvm call
CallOptions(base, arch) ==
    [self_options |-> base,
     options |-> [k \in DOMAIN base \cup {"arch", "gen-lto"} |->
                    IF k = "arch" THEN PyStr(arch)
                    ELSE IF k = "gen-lto" THEN PyNone
                    ELSE base[k]]]

\* a cache that keeps one entry only
CacheStore_single(cache, cc, ltoir) == [k \in {cc} |-> ltoir]

\* line 187: self._ltoir_cache[cc] = ltoir
CacheStore(cache, cc, ltoir) ==
    [k \in DOMAIN cache \cup {cc} |-> IF k = cc THEN ltoir ELSE cache[k]]

Count(calls, cc) == IF cc \in DOMAIN calls THEN calls[cc] ELSE 0
Returned(cc) == IF cc \in DOMAIN returned THEN returned[cc] ELSE {}

\* lines 171-189: compiled is whether nvvm.llvm_to_ptx succeeds, payload its result
get_ltoir(cc, compiled, payload) ==
    LET key == IF IsNone(cc) THEN activeCC ELSE cc.items
        call == [NoIRCall EXCEPT !.op = "get_ltoir", !.cc = cc, !.key = key]
    IN
    /\ IF cc.type = "list"
       THEN /\ lastIR' = [call EXCEPT !.exc = "TypeError"]
            /\ UNCHANGED <<_ltoir_cache, _nvvm_options, llvm_to_ptx_calls, returned>>
       ELSE LET ltoir == CacheGet(_ltoir_cache, key) IN
            IF CacheHit(ltoir)
            THEN /\ lastIR' = [call EXCEPT !.ret = ltoir]
                 /\ returned' = [k \in DOMAIN returned \cup {key} |->
                                   IF k = key THEN Returned(key) \cup {ltoir.val}
                                   ELSE returned[k]]
                 /\ UNCHANGED <<_ltoir_cache, _nvvm_options, llvm_to_ptx_calls>>
            ELSE LET arch == get_arch_option(key[1], key[2])
                     o == CallOptions(_nvvm_options, arch)
                     nvvm == <<[irs |-> LlvmStrs, options |-> o.options]>>
                 IN
                 /\ Count(llvm_to_ptx_calls, key) < MaxCompiles
                 /\ _nvvm_options' = o.self_options
                 /\ llvm_to_ptx_calls' =
                        [k \in DOMAIN llvm_to_ptx_calls \cup {key} |->
                            IF k = key THEN Count(llvm_to_ptx_calls, key) + 1
                            ELSE llvm_to_ptx_calls[k]]
                 /\ IF compiled
                    THEN /\ _ltoir_cache' = CacheStore(_ltoir_cache, key, payload)
                         /\ returned' = [k \in DOMAIN returned \cup {key} |->
                                           IF k = key THEN Returned(key) \cup {payload}
                                           ELSE returned[k]]
                         /\ lastIR' = [call EXCEPT !.nvvm = nvvm,
                                                   !.ret = PyBytes(payload)]
                    ELSE /\ lastIR' = [call EXCEPT !.nvvm = nvvm, !.exc = "NvvmError"]
                         /\ UNCHANGED <<_ltoir_cache, returned>>
    /\ UNCHANGED <<linkVars, installVars, thr>>

\* a code unit as LTOCUDACodeLibrary.__init__ leaves it (lines 167-169)
CacheInit ==
    /\ _ltoir_cache = [k \in {} |-> <<>>]
    /\ _nvvm_options \in NvvmOptionInputs
    /\ llvm_to_ptx_calls = [k \in {} |-> 0]
    /\ returned = [k \in {} |-> {}]
    /\ lastIR = NoIRCall

CacheNext ==
    \E cc \in IRCCInputs, compiled \in BOOLEAN, payload \in IRPayloads :
        get_ltoir(cc, compiled, payload)

-----------------------------------------------------------------------------
(* Module-level version gating and the installation actions *)

Absent == [type |-> "absent"]
Version(major, minor) == [type |-> "module", short |-> <<major, minor>>]

\* what "import numba" may find
NumbaInputs ==
    { Absent, Version(0, 57), Version(0, 58), Version(0, 59), Version(0, 60),
      Version(1, 0) }

\* a < b for two version tuples (Python's tuple comparison)
TupleLess(a, b) == a[1] < b[1] \/ (a[1] = b[1] /\ a[2] < b[2])

\* line 10
required_numba_ver == <<0, 58>>

\* lines 7, 16-28
_numba_version_ok(host) ==
    IF host.type = "absent" THEN FALSE
    ELSE ~TupleLess(host.short, required_numba_ver)

\* lines 8, 16-28
_numba_error(host) ==
    IF host.type = "absent" THEN "failed to import Numba: No module named 'numba'."
    ELSE IF TupleLess(host.short, required_numba_ver)
    THEN "version " \o ToString(host.short[1]) \o "." \o ToString(host.short[2])
         \o " is insufficient for patching - "
         \o ToString(required_numba_ver[1]) \o "." \o ToString(required_numba_ver[2])
         \o " is needed."
    ELSE "None"

\* the LTO gate compared with the version that patching needs
LtoGate_as_patching(ver) == TupleLess(ver, required_numba_ver)

\* line 209: ver < (0, 59)
LtoGate(ver) == TupleLess(ver, <<0, 59>>)

\* the slots as numba sets them up
OriginalLinkerNew == "Linker.new"
OriginalCodegen == [class |-> "JITCUDACodegen", id |-> 0]

NoInstall == [op |-> "none", exc |-> NoExc, msg |-> ""]

\* lines 196-201
patch_numba_linker ==
    /\ IF ~_numba_version_ok(numba)
       THEN /\ lastInstall' = [op |-> "patch_numba_linker", exc |-> "RuntimeError",
                               msg |-> "Cannot patch Numba: " \o _numba_error(numba)]
            /\ UNCHANGED Linker_new
       ELSE /\ Linker_new' = "new_patched_linker"
            /\ lastInstall' = [op |-> "patch_numba_linker", exc |-> NoExc, msg |-> ""]
    /\ UNCHANGED <<numba, _internal_codegen, codegens>>
    /\ UNCHANGED <<linkVars, cacheVars, thr>>

\* lines 204-215: a successful call constructs a new JITLTOCUDACodegen
patch_numba_for_lto ==
    /\ IF ~_numba_version_ok(numba)
       THEN /\ lastInstall' = [op |-> "patch_numba_for_lto", exc |-> "RuntimeError",
                               msg |-> "Cannot patch Numba: " \o _numba_error(numba)]
            /\ UNCHANGED <<_internal_codegen, codegens>>
       ELSE IF LtoGate(numba.short)
       THEN /\ lastInstall' =
                  [op |-> "patch_numba_for_lto", exc |-> "RuntimeError",
                   msg |-> "Numba version 0.59 needed for LTO - you have "
                           \o ToString(numba.short[1]) \o "."
                           \o ToString(numba.short[2])]
            /\ UNCHANGED <<_internal_codegen, codegens>>
       ELSE /\ codegens < MaxCodegens
            /\ codegens' = codegens + 1
            /\ _internal_codegen' = [class |-> "JITLTOCUDACodegen", id |-> codegens + 1]
            /\ lastInstall' = [op |-> "patch_numba_for_lto", exc |-> NoExc, msg |-> ""]
    /\ UNCHANGED <<numba, Linker_new>>
    /\ UNCHANGED <<linkVars, cacheVars, thr>>

\* the host framework opens a session through the installed Linker.new
Linker_new_call ==
    /\ Linker_new = "new_patched_linker"
    /\ \E cc \in SessionCCs \cup {PyNone}, lto \in BOOLEAN, ok \in BOOLEAN :
          new_patched_linker(PyInt(0), FALSE, cc, lto, PyNone, ok)

\* no installation under study: a host framework that can be patched
InstallIdle ==
    /\ numba = Version(0, 59)
    /\ Linker_new = OriginalLinkerNew
    /\ _internal_codegen = OriginalCodegen
    /\ codegens = 0
    /\ lastInstall = NoInstall

InstallInit ==
    /\ numba \in NumbaInputs
    /\ Linker_new = OriginalLinkerNew
    /\ _internal_codegen = OriginalCodegen
    /\ codegens = 0
    /\ lastInstall = NoInstall

InstallNext ==
    \/ patch_numba_linker
    \/ patch_numba_for_lto
    \/ Linker_new_call

-----------------------------------------------------------------------------
(* Two threads calling get_ltoir on the same code unit: the body of        *)
(* get_ltoir taken one shared access at a time                             *)

Threads == {1, 2}

\* the locals of a call that has not started
NoThread ==
    [pc |-> "idle", key |-> <<>>, ltoir |-> PyNone, made |-> PyNone,
     exc |-> NoExc, ret |-> PyNone]

\* lines 172-174: the call starts and resolves cc
t_call(t, cc) ==
    /\ thr[t].pc = "idle"
    /\ thr' = [thr EXCEPT ![t] =
                 IF cc.type = "list"
                 THEN [@ EXCEPT !.pc = "raised", !.exc = "TypeError"]
                 ELSE [@ EXCEPT !.pc = "176",
                                !.key = IF IsNone(cc) THEN activeCC ELSE cc.items]]
    /\ UNCHANGED <<linkVars, cacheVars, installVars>>

\* lines 176-178: the read of the cache and the return of a hit
get_ltoir_check(cache, local) ==
    LET ltoir == CacheGet(cache, local.key) IN
    IF CacheHit(ltoir)
    THEN [local EXCEPT !.pc = "done", !.ltoir = ltoir, !.ret = ltoir]
    ELSE [local EXCEPT !.pc = "180", !.ltoir = ltoir]

t_check(t) ==
    /\ thr[t].pc = "176"
    /\ thr' = [thr EXCEPT ![t] = get_ltoir_check(_ltoir_cache, @)]
    /\ UNCHANGED <<linkVars, cacheVars, installVars>>

\* lines 180-186: the call of nvvm.llvm_to_ptx
t_compile(t, compiled, payload) ==
    LET key == thr[t].key IN
    /\ thr[t].pc = "180"
    /\ llvm_to_ptx_calls' =
           [k \in DOMAIN llvm_to_ptx_calls \cup {key} |->
               IF k = key THEN Count(llvm_to_ptx_calls, key) + 1
               ELSE llvm_to_ptx_calls[k]]
    /\ _nvvm_options' = CallOptions(_nvvm_options,
                                    get_arch_option(key[1], key[2])).self_options
    /\ thr' = [thr EXCEPT ![t] =
                 IF compiled
                 THEN [@ EXCEPT !.pc = "187", !.ltoir = PyBytes(payload),
                                !.made = PyBytes(payload)]
                 ELSE [@ EXCEPT !.pc = "raised", !.exc = "NvvmError"]]
    /\ UNCHANGED <<linkVars, installVars, _ltoir_cache, returned, lastIR>>

\* a store that skips an empty payload
get_ltoir_store_if_truthy(cache, local) ==
    IF CacheHit(local.ltoir) THEN CacheStore(cache, local.key, local.ltoir.val)
    ELSE cache

\* line 187: self._ltoir_cache[cc] = ltoir, with the locals of the storing call
get_ltoir_store(cache, local) == CacheStore(cache, local.key, local.ltoir.val)

t_store(t) ==
    /\ thr[t].pc = "187"
    /\ _ltoir_cache' = get_ltoir_store(_ltoir_cache, thr[t])
    /\ thr' = [thr EXCEPT ![t].pc = "189"]
    /\ UNCHANGED <<linkVars, installVars, _nvvm_options, llvm_to_ptx_calls,
                   returned, lastIR>>

\* line 189: return ltoir
t_return(t) ==
    /\ thr[t].pc = "189"
    /\ thr' = [thr EXCEPT ![t].pc = "done", ![t].ret = thr[t].ltoir]
    /\ UNCHANGED <<linkVars, cacheVars, installVars>>

\* one call per thread, not yet started
ThreadInit == thr = [t \in Threads |-> NoThread]

ThreadNext ==
    \E t \in Threads :
        \/ \E cc \in IRCCInputs : t_call(t, cc)
        \/ t_check(t)
        \/ \E compiled \in BOOLEAN, payload \in IRPayloads :
              t_compile(t, compiled, payload)
        \/ t_store(t)
        \/ t_return(t)

-----------------------------------------------------------------------------
(* The link session specification *)

\* the session variables before any session exists
LinkInit ==
    /\ self = NoSession
    /\ handles = 0
    /\ activeCC \in DeviceCCs
    /\ DUMP_ASSEMBLY \in BOOLEAN
    /\ last = NoCall

\* a code unit no get_ltoir call is made on
CacheIdle ==
    /\ _ltoir_cache = [k \in {} |-> <<>>]
    /\ _nvvm_options = [k \in {} |-> PyNone]
    /\ llvm_to_ptx_calls = [k \in {} |-> 0]
    /\ returned = [k \in {} |-> {}]
    /\ lastIR = NoIRCall

\* threads that make no call
ThreadIdle == thr = [t \in {} |-> 0]

Init == LinkInit /\ CacheIdle /\ InstallIdle /\ ThreadIdle

\* a session for one of the architectures, the other options at their defaults
NewSession ==
    \E cc \in SessionCCs, ok \in BOOLEAN :
        new_patched_linker(PyInt(0), FALSE, cc, FALSE, PyNone, ok)

Next ==
    \/ NewSession
    \/ \E d \in BytesInputs, n \in NameInputs, ok \in BOOLEAN : add_ptx(d, n, ok)
    \/ \E d \in BytesInputs, n \in NameInputs, ok \in BOOLEAN : add_fatbin(d, n, ok)
    \/ \E d \in BytesInputs, n \in NameInputs, ok \in BOOLEAN : add_ltoir(d, n, ok)
    \/ \E d \in BytesInputs, n \in NameInputs, ok \in BOOLEAN : add_object(d, n, ok)
    \/ \E p \in PathInputs, k \in KindInputs, ok \in BOOLEAN : add_file(p, k, ok)
    \/ \E cu \in CuInputs, n \in CuNameInputs, c \in BOOLEAN, ptx \in PtxTexts,
          ok \in BOOLEAN : add_cu(cu, n, c, ptx, ok)
    \/ \E ok \in BOOLEAN : complete(ok)

Spec == Init /\ [][Next]_vars

-----------------------------------------------------------------------------
(* The construction specification: every argument combination of the       *)
(* constructor and of the factory                                          *)

ConstructNext ==
    \/ \E mr \in MaxRegistersInputs, li \in BOOLEAN, cc \in CCInputs,
          lto \in BOOLEAN, af \in AdditionalFlagsInputs, ok \in BOOLEAN :
          PatchedLinker_init("PatchedLinker", mr, li, cc, lto, af, ok)
    \/ \E mr \in MaxRegistersInputs, li \in BOOLEAN, cc \in CCInputs,
          lto \in BOOLEAN, af \in AdditionalFlagsInputs, ok \in BOOLEAN :
          new_patched_linker(mr, li, cc, lto, af, ok)

ConstructSpec == Init /\ [][ConstructNext]_vars

\* the code unit specification: get_ltoir calls on one code unit
CacheSpecInit == LinkInit /\ CacheInit /\ InstallIdle /\ ThreadIdle

CacheSpec == CacheSpecInit /\ [][CacheNext]_vars

\* the installation specification: the two installation actions on every host
InstallSpecInit == LinkInit /\ CacheIdle /\ InstallInit /\ ThreadIdle

InstallSpec == InstallSpecInit /\ [][InstallNext]_vars

\* the concurrency specification: two threads, one get_ltoir call each
ThreadSpecInit == LinkInit /\ CacheInit /\ InstallIdle /\ ThreadInit

ThreadSpec == ThreadSpecInit /\ [][ThreadNext]_vars

-----------------------------------------------------------------------------
(* Properties of the link session *)

AddOps == {"add_ptx", "add_fatbin", "add_ltoir", "add_object", "add_file", "add_cu"}

\* C1: once complete() has set the completion marker, a later complete() is
\* refused with an error and does not invoke the native final-link entry point.
C1_SecondCompleteRefused ==
    (last.op = "complete" /\ last.completeBefore)
        => (last.exc # NoExc /\ last.native = <<>>)

\* C2: after complete(), every input submission is rejected and makes no
\* native ingestion call.
C2_NoInputAfterComplete ==
    (last.op \in AddOps /\ last.completeBefore)
        => (last.exc # NoExc /\ last.native = <<>>)

\* C3: an operation whose native call is rejected raises LinkerError, never
\* the raw NvJitLinkError.
C3_NativeRejectionIsLinkerError ==
    (last.native # <<>> /\ ~last.native[1].ok) => last.exc = "LinkerError"

\* C4: add_file on a path that does not exist, for every kind, raises
\* LinkerError "<path> not found", makes no native call and leaves the
\* session, its native handle included, as it was.
C4_MissingFileNotFound ==
    [][(last'.op = "add_file" /\ FileSystem[last'.path].kind = "missing")
        => /\ last'.exc = "LinkerError"
           /\ last'.msg = Str(last'.path) \o " not found"
           /\ last'.cause = NoExc
           /\ last'.native = <<>>
           /\ self' = self
           /\ handles' = handles]_vars

C4_Witness ==
    /\ last.op = "add_file"
    /\ FileSystem[last.path].kind = "missing"
    /\ FileRoute(last.kind) = "add_object"
    /\ last.exc = "LinkerError"
    /\ self._linker.ninputs > 0

UnsupportedKind(call) ==
    /\ call.exc = "LinkerError"
    /\ call.msg = "Don't know how to link " \o ToString(call.kind)

\* C5 as stated: add_file with a kind outside the five mapped kinds, whatever
\* the path, raises the unsupported-kind LinkerError and invokes no native
\* ingestion entry point.
C5_UnmappedKindAnyPath ==
    (last.op = "add_file" /\ last.kind \notin
        {FILE_EXTENSION_MAP[e] : e \in {"cubin", "fatbin", "a", "ptx", "o"}})
        => (UnsupportedKind(last) /\ last.native = <<>>)

\* C5 amended: add_file with a kind outside the five mapped kinds invokes no
\* native ingestion entry point whatever the path, and raises the
\* unsupported-kind LinkerError when the path is a file that can be read.
C5_UnmappedKindReadableFile ==
    (last.op = "add_file" /\ last.kind \notin
        {FILE_EXTENSION_MAP[e] : e \in {"cubin", "fatbin", "a", "ptx", "o"}})
        => /\ last.native = <<>>
           /\ FileSystem[last.path].kind = "file" => UnsupportedKind(last)

C5_Witness ==
    /\ last.op = "add_file"
    /\ last.kind = 5
    /\ FileSystem[last.path].kind = "file"
    /\ UnsupportedKind(last)

\* C10: add_cu invokes nvrtc.compile with the architecture the session was
\* constructed with, also when the active device reports another one.
C10_CompileWithSessionCC ==
    last.op = "add_cu"
        => \A i \in DOMAIN last.compile :
              "-arch=sm_" \o ToString(last.compile[i].cc[1] * 10 + last.compile[i].cc[2])
                  = self.options[1]

PtxExt == <<".", "p", "t", "x">>

\* ext is what os.path.splitext calls an extension: empty, or a dot followed
\* by characters that are neither dots nor separators
IsExtension(ext) ==
    ext = <<>> \/ (ext[1] = "." /\ \A i \in 2 .. Len(ext) : ext[i] \notin {".", "/"})

\* the last path component of name carries an extension: a dot that follows a
\* character other than a dot
HasExtension(name) ==
    \E i \in 1 .. Len(name) :
        /\ name[i] = "."
        /\ \A j \in i .. Len(name) : name[j] # "/"
        /\ \E j \in 1 .. (i - 1) :
              name[j] # "." /\ \A k \in j .. i : name[k] # "/"

\* C11: a successful add_cu makes exactly one native call, add_ptx, whose
\* payload is the encoded assembly the compiler returned and whose name is the
\* source name with its extension, if it has one, replaced by ".ptx".
C11_SourceSubmittedAsPtx ==
    (last.op = "add_cu" /\ last.exc = NoExc)
        => /\ Len(last.compile) = 1
           /\ last.compile[1].ok
           /\ Len(last.native) = 1
           /\ last.native[1].fn = "add_ptx"
           /\ last.native[1].ok
           /\ Len(last.native[1].data) = Len(last.compile[1].ptx)
           /\ \A i \in DOMAIN last.native[1].data :
                 last.native[1].data[i] = Ord[last.compile[1].ptx[i]]
           /\ LET nm == last.native[1].name
                  n == Len(nm) - Len(PtxExt)
                  root == SubSeq(nm, 1, n)
                  ext == SubSeq(last.name, n + 1, Len(last.name))
              IN  /\ n >= 0
                  /\ SubSeq(nm, n + 1, Len(nm)) = PtxExt
                  /\ n <= Len(last.name)
                  /\ root = SubSeq(last.name, 1, n)
                  /\ IsExtension(ext)
                  /\ HasExtension(last.name) => ext # <<>>

C11_Witness ==
    /\ last.op = "add_cu"
    /\ last.exc = NoExc
    /\ last.name = <<"a", ".", "b", ".", "c">>
    /\ last.native[1].name = <<"a", ".", "b">> \o PtxExt
    /\ last.native[1].data = <<112, 120>>

MappedKinds == {FILE_EXTENSION_MAP[e] : e \in {"cubin", "fatbin", "a", "ptx", "o"}}

\* the native call of a direct submission of bytes of a kind: the session's
\* own add_ptx, add_fatbin and add_object, and for cubin and archive, which
\* have no method on the session, the handle's entry point of that kind
DirectCall(kind, linker, data, name, ok) ==
    CASE kind = FILE_EXTENSION_MAP["ptx"] -> add_ptx_outcome(linker, data, name, ok).native
      [] kind = FILE_EXTENSION_MAP["fatbin"] ->
            add_fatbin_outcome(linker, data, name, ok).native
      [] kind = FILE_EXTENSION_MAP["o"] -> add_object_outcome(linker, data, name, ok).native
      [] kind = FILE_EXTENSION_MAP["cubin"] -> <<NativeCall("add_cubin", data, name, ok)>>
      [] kind = FILE_EXTENSION_MAP["a"] -> <<NativeCall("add_library", data, name, ok)>>

\* name is the last component of path
IsBaseName(name, path) ==
    LET n == Len(path) - Len(name)
    IN  /\ n >= 0
        /\ SubSeq(path, n + 1, Len(path)) = name
        /\ \A i \in DOMAIN name : name[i] # "/"
        /\ n > 0 => path[n] = "/"

\* C12: add_file of an existing file with a mapped kind makes exactly one
\* native call, the one a direct submission of the file's bytes with that kind
\* makes, under the base name of the path.
C12_FileAsDirectBytes ==
    (last.op = "add_file" /\ FileSystem[last.path].kind = "file"
        /\ last.kind \in MappedKinds)
        => /\ Len(last.native) = 1
           /\ IsBaseName(last.native[1].name, last.path)
           /\ last.native = DirectCall(last.kind, self._linker,
                                       FileSystem[last.path].data,
                                       last.native[1].name, last.native[1].ok)

C12_Witness ==
    /\ last.op = "add_file"
    /\ last.path = PathObj
    /\ last.kind = FILE_EXTENSION_MAP["a"]
    /\ last.native = <<NativeCall("add_library", <<127, 69>>, <<"k", ".", "o">>, TRUE)>>

\* the string text has the string part inside it
Contains(text, part) ==
    \E i \in 1 .. (Len(text) - Len(part) + 1) :
        SubSeq(text, i, i + Len(part) - 1) = part

\* C13: when the native final-link fails, complete() raises a LinkerError whose
\* message contains the native diagnostic text, and so does add_file when the
\* native service rejects the file.
C13_MessageCarriesNativeLog ==
    (last.op \in {"complete", "add_file"} /\ last.native # <<>> /\ ~last.native[1].ok)
        => (last.exc = "LinkerError" /\ Contains(last.msg, NativeMsg))

\* C18: an add_cu call has the compiler invocation, the native add_ptx call,
\* the return value, the error outcome and the effect on the handle that the
\* same call has with config.DUMP_ASSEMBLY flipped; the printed text alone
\* differs, and it differs whenever the compiler returned assembly.
C18_DumpDoesNotInterfere ==
    [][last'.op = "add_cu"
        => LET c == last'.compile[1]
               ok == IF last'.native # <<>> THEN last'.native[1].ok ELSE TRUE
               f == add_cu_outcome(self._linker, activeCC, ~DUMP_ASSEMBLY, c.cu,
                                   last'.name, c.ok, c.ptx, ok)
           IN  /\ f.compile = last'.compile
               /\ f.out.native = last'.native
               /\ f.out.ret = last'.ret
               /\ f.out.exc = last'.exc
               /\ f.out.msg = last'.msg
               /\ f.out.cause = last'.cause
               /\ f.out.linker = self'._linker
               /\ c.ok <=> f.printed # last'.printed]_vars

C18_Witness ==
    /\ last.op = "add_cu"
    /\ DUMP_ASSEMBLY
    /\ Len(last.printed) = 3
    /\ last.exc = NoExc
    /\ last.native # <<>>
    /\ self._linker.ninputs = 1

\* self._linker._complete, unset while there is no session
Marker(s) == IF s = NoSession THEN FALSE ELSE s._linker._complete

-----------------------------------------------------------------------------
(* Properties of construction *)

\* C6: a construction with cc = None fails, through the constructor and
\* through new_patched_linker alike, and no NvJitLinker has been created.
C6_NoCCFailsBeforeHandle ==
    [][(last'.op = "__init__" /\ IsNone(last'.cc))
        => /\ last'.exc # NoExc
           /\ handles' = handles
           /\ self' = NoSession]_vars

C6_Witness ==
    /\ last.op = "__init__"
    /\ last.via = "new_patched_linker"
    /\ IsNone(last.cc)
    /\ last.exc = "RuntimeError"
    /\ handles = 0

\* the flag sequence the Link Option Set prescribes for the arguments of call
OptionSet(call) ==
    LET major == call.cc.items[1]
        minor == call.cc.items[2]
        given == call.max_registers.type = "int" /\ call.max_registers.val # 0
    IN  << "-arch=sm_" \o ToString(10 * major + minor) >>
        \o (IF given THEN << "-maxrregcount=" \o ToString(call.max_registers.val) >>
            ELSE <<>>)
        \o (IF call.lineinfo THEN << "-lineinfo" >> ELSE <<>>)
        \o (IF call.lto THEN << "-lto" >> ELSE <<>>)
        \o (IF call.additional_flags.type = "list" THEN call.additional_flags.items
            ELSE <<>>)

\* C16: after a construction with a well-formed cc, session.options is the
\* architecture flag, then -maxrregcount=<n> iff a non-zero count was given,
\* then -lineinfo iff line info is on, then -lto iff LTO is on, then the extra
\* flags in their order, and the native handle was created with that sequence.
C16_OptionSequence ==
    (last.op = "__init__" /\ last.exc = NoExc)
        => /\ self # NoSession
           /\ Len(last.cc.items) = 2 => self.options = OptionSet(last)
           /\ self._linker.options = self.options

C16_Witness ==
    /\ last.op = "__init__"
    /\ last.via = "new_patched_linker"
    /\ last.cc = PyTuple(<<8, 0>>)
    /\ last.max_registers.type = "int"
    /\ last.max_registers.val = 0
    /\ self # NoSession
    /\ self.options = <<"-arch=sm_80", "-lineinfo", "-lto", "-g", "-O3">>

Malformed(cc) ==
    IF cc.type \in {"list", "tuple"} THEN Len(cc.items) # 2 ELSE ~IsNone(cc)

\* C7: a construction whose cc is not a list or tuple, or is one of a length
\* other than 2, fails with a configuration error and creates no NvJitLinker.
C7_MalformedPairRejected ==
    [][(last'.op = "__init__" /\ Malformed(last'.cc))
        => /\ last'.exc \in {"TypeError", "IndexError", "RuntimeError"}
           /\ handles' = handles
           /\ self' = NoSession]_vars

-----------------------------------------------------------------------------
(* Properties of the LTO-IR cache *)

\* C8: once get_ltoir has returned a payload for an architecture, a later
\* get_ltoir for that architecture returns the same payload and does not invoke
\* nvvm.llvm_to_ptx again.
C8_GetLtoirIdempotent ==
    [][(lastIR'.op = "get_ltoir" /\ lastIR'.exc # "TypeError"
            /\ Returned(lastIR'.key) # {})
        => /\ lastIR'.nvvm = <<>>
           /\ lastIR'.exc = NoExc
           /\ lastIR'.ret.val \in Returned(lastIR'.key)]_vars

\* C9: a get_ltoir call for one architecture leaves the cache entry of every
\* other architecture as it was, and no get_ltoir call changes _nvvm_options.
C9_OtherEntriesKept ==
    [][/\ \A a \in DOMAIN _ltoir_cache :
             a # lastIR'.key
                 => (a \in DOMAIN _ltoir_cache' /\ _ltoir_cache'[a] = _ltoir_cache[a])
       /\ _nvvm_options' = _nvvm_options]_vars

C9_Witness ==
    /\ DOMAIN _ltoir_cache = {<<7, 5>>, <<8, 0>>}
    /\ lastIR.nvvm # <<>>
    /\ lastIR.exc = NoExc
    /\ lastIR.key = <<8, 0>>
    /\ _ltoir_cache[<<7, 5>>] # _ltoir_cache[<<8, 0>>]

\* C17: once the cache holds an entry for an architecture, no get_ltoir call
\* removes the entry or replaces its payload with another value.
C17_EntriesNeverInvalidated ==
    [][\A a \in DOMAIN _ltoir_cache :
          a \in DOMAIN _ltoir_cache' /\ _ltoir_cache'[a] = _ltoir_cache[a]]_vars

-----------------------------------------------------------------------------
(* Properties of the installation actions *)

\* the host framework is absent or older than major.minor
TooOld(host, major, minor) ==
    host.type = "absent"
        \/ host.short[1] < major
        \/ (host.short[1] = major /\ host.short[2] < minor)

\* C14: patch_numba_linker raises RuntimeError on a host that is absent or
\* older than 0.58, patch_numba_for_lto on a host that is absent or older than
\* 0.59, and an installation call that raises leaves Linker.new and the target
\* context's codegen as they were.
C14_CapabilityGate ==
    [][/\ (lastInstall'.op = "patch_numba_linker" /\ TooOld(numba, 0, 58))
            => lastInstall'.exc = "RuntimeError"
       /\ (lastInstall'.op = "patch_numba_for_lto" /\ TooOld(numba, 0, 59))
            => lastInstall'.exc = "RuntimeError"
       /\ (lastInstall' # lastInstall /\ lastInstall'.exc # NoExc)
            => /\ Linker_new' = Linker_new
               /\ _internal_codegen' = _internal_codegen
               /\ codegens' = codegens]_vars

C14_Witness ==
    /\ numba = Version(0, 58)
    /\ lastInstall.op = "patch_numba_for_lto"
    /\ lastInstall.exc = "RuntimeError"
    /\ Linker_new = "new_patched_linker"
    /\ _internal_codegen = OriginalCodegen

\* C15: an installation action invoked again right after it succeeded leaves
\* the installed linker factory and the installed codegen as the first
\* invocation left them.
C15_InstallIdempotent ==
    [][(/\ patch_numba_linker \/ patch_numba_for_lto
        /\ lastInstall.op = lastInstall'.op
        /\ lastInstall.exc = NoExc
        /\ lastInstall'.exc = NoExc)
        => /\ Linker_new' = Linker_new
           /\ _internal_codegen' = _internal_codegen]_vars

-----------------------------------------------------------------------------
(* Properties of concurrent get_ltoir calls *)

Done(t) == thr[t].pc = "done"

\* some call for the architecture of t's call got payload b from the compiler
Produced(key, b) ==
    \E u \in Threads : thr[u].key = key /\ thr[u].made.type = "bytes"
                       /\ thr[u].made.val = b.val

\* C20: in every interleaving of two get_ltoir calls, a caller that has
\* returned returns a payload the compiler produced for its architecture, and
\* once both callers for one architecture have returned the cache holds for it
\* an entry equal to one of the two returned payloads.
C20_RaceKeepsCompiledPayloads ==
    /\ \A t \in Threads :
          Done(t) => thr[t].ret.type = "bytes" /\ Produced(thr[t].key, thr[t].ret)
    /\ \A t, u \in Threads :
          (t # u /\ Done(t) /\ Done(u) /\ thr[t].key = thr[u].key)
            => /\ thr[t].key \in DOMAIN _ltoir_cache
               /\ _ltoir_cache[thr[t].key] \in {thr[t].ret.val, thr[u].ret.val}

\* both callers have returned for one architecture, the compiler ran twice on
\* non-empty results, and they returned different payloads
C20_Witness ==
    /\ Done(1) /\ Done(2)
    /\ thr[1].key = thr[2].key
    /\ Count(llvm_to_ptx_calls, thr[1].key) = 2
    /\ thr[1].ret.val # <<>> /\ thr[2].ret.val # <<>>
    /\ thr[1].ret.val # thr[2].ret.val

=============================================================================
